---- MODULE Spec2Model ----
(***************************************************************************)
(* Model of src/assign_2.py, the two-stage (planner / reviewer) travel     *)
(* planner: the process-wide tool logger slot, the internet_search tool    *)
(* and its lifecycle events, the stage helpers and the Streamlit request   *)
(* handler with its session-state conversation history.                    *)
(*                                                                         *)
(* Python strings are TLA+ strings (TLC evaluates Len, \o and SubSeq on    *)
(* them).  Non-ASCII characters of the source's literals are written in    *)
(* ASCII: the arrow of the trace caption is "->", the warning sign of the  *)
(* error text is "(!)", the ellipsis of a cut string is "~", the code      *)
(* fence of the error text is three apostrophes.                           *)
(***************************************************************************)
EXTENDS Integers, Sequences, FiniteSets, TLC

VARIABLES
    TOOL_LOGGER,    \* line 33: None, or the ui_tool_logger closure of request n
    messages,       \* st.session_state.messages
    meta,           \* st.session_state.meta
    tool_events,    \* tool_events[n]: the list the closure of request n appends to
    pc,             \* position of the script run: "idle", "planner", "reviewer"
    req,            \* number of requests started so far
    user_input,     \* line 457
    plan_text,      \* line 503
    review_text,    \* line 509
    plannerCalls,   \* inputs Runner.run(planner_agent, .) got in this request
    reviewerCalls,  \* inputs Runner.run(reviewer_agent, .) got in this request
    stage_exc,      \* line 528: the exception e the handler caught (None if none)
    last,           \* how the last finished request ended
    messages0,      \* st.session_state.messages when the current request began
    tpc,            \* position inside internet_search
    caller,         \* who invoked internet_search: "reviewer" or "direct"
    query,          \* argument of the running invocation
    api_key,        \* line 94: what os.getenv returned (Unset before the read)
    search_exc,     \* the exception client.search raised (None if none)
    items,          \* line 103: the results of the response (Unset before it)
    exc,            \* exception in flight inside internet_search (None if none)
    ret,            \* value internet_search returns (None until it is set)
    emitted,        \* events this invocation handed to log_tool_event, in order
    searches,       \* client.search calls made by this invocation
    sinkRaises,     \* how many times the sink raised during this invocation
    toolCalls,      \* invocations of internet_search so far
    arg,            \* argument of the helper function being evaluated on its own
    out             \* what that function returned (Unset before the call)

handlerVars == <<messages, meta, pc, req, user_input, plan_text, review_text,
                 plannerCalls, reviewerCalls, stage_exc, last, messages0>>
toolVars == <<tpc, caller, query, api_key, search_exc, items, exc, ret, emitted, searches,
              sinkRaises, toolCalls>>
pureVars == <<arg, out>>
vars == <<TOOL_LOGGER, tool_events, handlerVars, toolVars, pureVars>>

\* Bounds of the model
MaxRequests == 2
MaxToolCalls == 2

None == [t |-> "none", v |-> ""]
Str(s) == [t |-> "str", v |-> s]
Num(s) == [t |-> "int", v |-> s]
\* a local variable that has not been assigned yet
Unset == [t |-> "unset", v |-> ""]
\* the closure ui_tool_logger defined by request n (line 475)
Logger(n) == [t |-> "fn", v |-> "ui_tool_logger", n |-> n]

\* Python truthiness of a value: None, "" and 0 are falsy
Truthy(x) == CASE x.t = "none" -> FALSE
               [] x.t = "str" -> x.v # ""
               [] x.t = "int" -> x.v # "0"

\* str(x)
PyStr(x) == IF x.t = "none" THEN "None" ELSE x.v

\* s contains m as a substring (Python's `m in s`)
Contains(s, m) ==
    \E i \in 1..(Len(s) - Len(m) + 1) : SubSeq(s, i, i + Len(m) - 1) = m

----------------------------------------------------------------------------
\* Inputs

UserInputs == {"3-day Paris trip"}
Queries == {"louvre hours"}
ApiKeys == {None, Str(""), Str("tvly-1")}
SearchErrors == {"timeout"}
StageErrors == {"rate limit"}
SinkError == "render failed"

\* Results Runner.run may hand back: the object's final_output and text
\* attributes (None when the attribute is missing) and its str() rendering
PlannerResults ==
    { [final_output |-> Str("plan A"), text |-> None, str |-> "RunResult(p1)"],
      [final_output |-> Str(""), text |-> Str("same"), str |-> "RunResult(p2)"] }
ReviewerResults ==
    { [final_output |-> Str("review A"), text |-> Str("draft"), str |-> "RunResult(r1)"],
      [final_output |-> None, text |-> Str("same"), str |-> "RunResult(r2)"] }

\* Responses of TavilyClient.search: the "results" list of the response
Responses ==
    { <<>>,
      <<[title |-> "Louvre", content |-> "Open 9-18"]>> }

----------------------------------------------------------------------------
\* Logger slot (lines 33-49)

\* Mutant: the assignment to the global is lost (a missing `global` statement)
set_tool_logger_local(current, logger) == current

set_tool_logger(current, logger) == logger

\* redact_for_logs on a string (lines 57-61)
SensitiveInString == {"api_key", "token", "secret", "password"}
RedactLimit == 300
RedactKeep == 120

LowerChar(c) ==
    CASE c = "A" -> "a" [] c = "B" -> "b" [] c = "C" -> "c" [] c = "D" -> "d"
      [] c = "E" -> "e" [] c = "F" -> "f" [] c = "G" -> "g" [] c = "H" -> "h"
      [] c = "I" -> "i" [] c = "J" -> "j" [] c = "K" -> "k" [] c = "L" -> "l"
      [] c = "M" -> "m" [] c = "N" -> "n" [] c = "O" -> "o" [] c = "P" -> "p"
      [] c = "Q" -> "q" [] c = "R" -> "r" [] c = "S" -> "s" [] c = "T" -> "t"
      [] c = "U" -> "u" [] c = "V" -> "v" [] c = "W" -> "w" [] c = "X" -> "x"
      [] c = "Y" -> "y" [] c = "Z" -> "z"
      [] OTHER -> c

\* s.lower(), character by character (halving keeps the evaluation shallow)
RECURSIVE Lower(_)
Lower(s) ==
    IF Len(s) = 0 THEN ""
    ELSE IF Len(s) = 1 THEN LowerChar(s)
    ELSE LET h == Len(s) \div 2
         IN Lower(SubSeq(s, 1, h)) \o Lower(SubSeq(s, h + 1, Len(s)))

Redacted == "[redacted]"
Truncated == "~ [truncated]"

\* a dict (keys to values) and a list, as Python values
Dict(f) == [t |-> "dict", v |-> f]
List(q) == [t |-> "list", v |-> q]

\* Mutant: the sensitive words are looked for in the string as it is written
redact_str_cased(value) ==
    IF \E k \in SensitiveInString : Contains(value, k)
    THEN Redacted
    ELSE IF Len(value) <= RedactLimit THEN value
         ELSE SubSeq(value, 1, RedactKeep) \o Truncated

\* the string branch of redact_for_logs (lines 57-61)
redact_str(value) ==
    LET low == Lower(value) IN
    IF \E k \in SensitiveInString : Contains(low, k)
    THEN Redacted
    ELSE IF Len(value) <= RedactLimit THEN value
         ELSE SubSeq(value, 1, RedactKeep) \o Truncated

\* line 63: the words looked for in a lowercased key
SensitiveInKey == {"key", "token", "secret", "password"}
SensitiveKey(k) == \E w \in SensitiveInKey : Contains(Lower(k), w)

\* Mutant: lists are returned as they are, not redacted element by element
RECURSIVE redact_for_logs_flat(_)
redact_for_logs_flat(value) ==
    CASE value.t = "str" -> Str(redact_str(value.v))
      [] value.t = "dict" ->
           Dict([k \in DOMAIN value.v |->
                   IF SensitiveKey(k) THEN Str(Redacted)
                   ELSE redact_for_logs_flat(value.v[k])])
      [] OTHER -> value

\* redact_for_logs (lines 52-68)
RECURSIVE redact_for_logs(_)
redact_for_logs(value) ==
    CASE value.t = "str" -> Str(redact_str(value.v))
      [] value.t = "dict" ->
           Dict([k \in DOMAIN value.v |->
                   IF SensitiveKey(k) THEN Str(Redacted)
                   ELSE redact_for_logs(value.v[k])])
      [] value.t = "list" ->
           List([i \in 1..Len(value.v) |-> redact_for_logs(value.v[i])])
      [] OTHER -> value

\* ui_tool_logger (lines 475-490): append the event, then re-render the
\* sidebar; the rendering may raise
ui_tool_logger(events, event, renderFails) ==
    [events |-> Append(events, event), raised |-> renderFails]

\* Mutant: no try/except around the sink call
log_tool_event_unguarded(logger, lists, event, sinkFails) ==
    IF logger # None
    THEN LET r == ui_tool_logger(lists[logger.n], event, sinkFails)
         IN [lists |-> [lists EXCEPT ![logger.n] = r.events], raised |-> r.raised]
    ELSE [lists |-> lists, raised |-> FALSE]

\* Mutant: no None check and no try/except, so calling None raises TypeError
log_tool_event_unchecked(logger, lists, event, sinkFails) ==
    IF logger # None
    THEN LET r == ui_tool_logger(lists[logger.n], event, sinkFails)
         IN [lists |-> [lists EXCEPT ![logger.n] = r.events], raised |-> FALSE]
    ELSE [lists |-> lists, raised |-> TRUE]

\* Mutant: one event list shared by every request instead of one per request
log_tool_event_shared(logger, lists, event, sinkFails) ==
    IF logger # None
    THEN LET r == ui_tool_logger(lists[1], event, sinkFails)
         IN [lists |-> [lists EXCEPT ![1] = r.events], raised |-> FALSE]
    ELSE [lists |-> lists, raised |-> FALSE]

\* log_tool_event (lines 42-49): lists is tool_events; the result says what
\* the lists are afterwards and whether an exception leaves the function
log_tool_event(logger, lists, event, sinkFails) ==
    IF logger # None
    THEN LET r == ui_tool_logger(lists[logger.n], event, sinkFails)
         IN [lists |-> [lists EXCEPT ![logger.n] = r.events], raised |-> FALSE]
    ELSE [lists |-> lists, raised |-> FALSE]

----------------------------------------------------------------------------
\* internet_search (lines 84-119)

ToolName == "internet_search"
MissingKeyMsg == "missing TAVILY_API_KEY in environment."
\* Mutant: the message of the exception is left out of the returned string
SearchErrorText_nomsg(m) == "Search error"

SearchErrorText(m) == "Search error: " \o m
NoResults == "No results found."
PreviewCap == 400

CallEvent(q) == [type |-> "call", tool |-> ToolName, args |-> [query |-> redact_for_logs(Str(q)).v]]
ErrorEvent(m) == [type |-> "error", tool |-> ToolName, error |-> m]
\* Mutant: the preview is the whole output, neither cut nor redacted
ResultEvent_whole(output) ==
    [type |-> "result", tool |-> ToolName, preview |-> output]

\* lines 107-111
ResultEvent(output) ==
    [type |-> "result", tool |-> ToolName,
     preview |-> redact_for_logs(Str(
         SubSeq(output, 1, IF Len(output) < PreviewCap THEN Len(output) ELSE PreviewCap)
         \o (IF Len(output) > PreviewCap THEN "~" ELSE ""))).v]
EndEvent == [type |-> "end", tool |-> ToolName]

\* it.get(k, "N/A") (line 104)
Get(it, k) == IF k \in DOMAIN it THEN it[k] ELSE "N/A"

RECURSIVE JoinLines(_)
JoinLines(lines) ==
    IF Len(lines) = 0 THEN ""
    ELSE IF Len(lines) = 1 THEN lines[1]
    ELSE lines[1] \o "\n" \o JoinLines(Tail(lines))

\* lines 103-105
FormatOutput(results) ==
    LET lines == [i \in 1..Len(results) |->
                    "- " \o Get(results[i], "title") \o ": " \o Get(results[i], "content")]
    IN IF Len(lines) > 0 THEN JoinLines(lines) ELSE NoResults

\* One call of log_tool_event by the running invocation
Emit(event, fails) == log_tool_event(TOOL_LOGGER, tool_events, event, fails)

Logged(event, fails, r) ==
    /\ tool_events' = r.lists
    /\ emitted' = Append(emitted, event)
    /\ sinkRaises' = sinkRaises + (IF fails /\ TOOL_LOGGER # None THEN 1 ELSE 0)

ToolIdle == tpc \in {"none", "returned", "raised"}

\* The frame of a finished invocation is gone once its caller moves on
FrameDropped ==
    /\ tpc' = "none"
    /\ caller' = "direct"
    /\ query' = ""
    /\ api_key' = Unset
    /\ search_exc' = None
    /\ items' = Unset
    /\ exc' = None
    /\ ret' = None
    /\ emitted' = <<>>
    /\ searches' = 0
    /\ sinkRaises' = 0
    /\ UNCHANGED toolCalls

\* line 91: the 'call' event, emitted before the try block
InternetSearchStart(q, fails) ==
    /\ UNCHANGED pureVars
    /\ ToolIdle
    /\ toolCalls < MaxToolCalls
    /\ pc \in {"idle", "reviewer"}
    /\ LET r == log_tool_event(TOOL_LOGGER, tool_events, CallEvent(q), fails) IN
        /\ tool_events' = r.lists
        /\ emitted' = <<CallEvent(q)>>
        /\ sinkRaises' = (IF fails /\ TOOL_LOGGER # None THEN 1 ELSE 0)
        /\ tpc' = IF r.raised THEN "raised" ELSE "try"
        /\ exc' = IF r.raised THEN Str(SinkError) ELSE None
    /\ caller' = IF pc = "reviewer" THEN "reviewer" ELSE "direct"
    /\ query' = q
    /\ api_key' = Unset
    /\ search_exc' = None
    /\ items' = Unset
    /\ ret' = None
    /\ searches' = 0
    /\ toolCalls' = toolCalls + 1
    /\ UNCHANGED <<TOOL_LOGGER, handlerVars>>

\* Mutant: the early return leaves the function without running the finally
InternetSearchMissingKey_noFinally(key, fails) ==
    /\ UNCHANGED pureVars
    /\ tpc = "try"
    /\ ~Truthy(key)
    /\ api_key' = key
    /\ LET r == Emit(ErrorEvent(MissingKeyMsg), fails) IN
        /\ Logged(ErrorEvent(MissingKeyMsg), fails, r)
        /\ tpc' = IF r.raised THEN "except" ELSE "returned"
        /\ exc' = IF r.raised THEN Str(SinkError) ELSE None
        /\ ret' = IF r.raised THEN None ELSE Str(SearchErrorText(MissingKeyMsg))
    /\ UNCHANGED <<TOOL_LOGGER, handlerVars, caller, query, items, search_exc, searches,
                   toolCalls>>

\* Mutant: the missing credential is returned but not logged as an error
InternetSearchMissingKey_noError(key, fails) ==
    /\ UNCHANGED pureVars
    /\ tpc = "try"
    /\ ~Truthy(key)
    /\ api_key' = key
    /\ tpc' = "finally"
    /\ exc' = None
    /\ ret' = Str(SearchErrorText(MissingKeyMsg))
    /\ UNCHANGED <<TOOL_LOGGER, tool_events, handlerVars, caller, query, items, search_exc,
                   emitted, searches, sinkRaises, toolCalls>>

\* lines 94-98: no credential in the environment
InternetSearchMissingKey(key, fails) ==
    /\ UNCHANGED pureVars
    /\ tpc = "try"
    /\ ~Truthy(key)
    /\ api_key' = key
    /\ LET r == Emit(ErrorEvent(MissingKeyMsg), fails) IN
        /\ Logged(ErrorEvent(MissingKeyMsg), fails, r)
        /\ tpc' = IF r.raised THEN "except" ELSE "finally"
        /\ exc' = IF r.raised THEN Str(SinkError) ELSE None
        /\ ret' = IF r.raised THEN None ELSE Str(SearchErrorText(MissingKeyMsg))
    /\ UNCHANGED <<TOOL_LOGGER, handlerVars, caller, query, items, search_exc, searches,
                   toolCalls>>

\* lines 100-101: client.search raises
InternetSearchRaises(key, m) ==
    /\ UNCHANGED pureVars
    /\ tpc = "try"
    /\ Truthy(key)
    /\ api_key' = key
    /\ searches' = searches + 1
    /\ search_exc' = Str(m)
    /\ tpc' = "except"
    /\ exc' = Str(m)
    /\ UNCHANGED <<TOOL_LOGGER, tool_events, handlerVars, caller, query, items, ret, emitted,
                   sinkRaises, toolCalls>>

\* lines 100-112: client.search returns, the output is formatted and previewed
InternetSearchResult(key, results, fails) ==
    /\ UNCHANGED pureVars
    /\ tpc = "try"
    /\ Truthy(key)
    /\ api_key' = key
    /\ searches' = searches + 1
    /\ items' = List(results)
    /\ LET output == FormatOutput(results)
           r == Emit(ResultEvent(output), fails) IN
        /\ Logged(ResultEvent(output), fails, r)
        /\ tpc' = IF r.raised THEN "except" ELSE "finally"
        /\ exc' = IF r.raised THEN Str(SinkError) ELSE None
        /\ ret' = IF r.raised THEN None ELSE Str(output)
    /\ UNCHANGED <<TOOL_LOGGER, handlerVars, caller, query, search_exc, toolCalls>>

\* Mutant: the handler returns the error string without an 'error' event
InternetSearchExcept_silent(fails) ==
    /\ UNCHANGED pureVars
    /\ tpc = "except"
    /\ exc' = None
    /\ ret' = Str(SearchErrorText(PyStr(exc)))
    /\ tpc' = "finally"
    /\ UNCHANGED <<TOOL_LOGGER, tool_events, handlerVars, caller, query, items, api_key,
                   search_exc, emitted, searches, sinkRaises, toolCalls>>

\* lines 114-116: except Exception as e
InternetSearchExcept(fails) ==
    /\ UNCHANGED pureVars
    /\ tpc = "except"
    /\ LET r == Emit(ErrorEvent(PyStr(exc)), fails) IN
        /\ Logged(ErrorEvent(PyStr(exc)), fails, r)
        /\ exc' = IF r.raised THEN Str(SinkError) ELSE None
        /\ ret' = IF r.raised THEN None ELSE Str(SearchErrorText(PyStr(exc)))
    /\ tpc' = "finally"
    /\ UNCHANGED <<TOOL_LOGGER, handlerVars, caller, query, items, api_key, search_exc, searches,
                   toolCalls>>

\* lines 118-119: finally, then the return (or the exception) reaches the caller
InternetSearchFinally(fails) ==
    /\ UNCHANGED pureVars
    /\ tpc = "finally"
    /\ LET r == Emit(EndEvent, fails) IN
        /\ Logged(EndEvent, fails, r)
        /\ tpc' = IF r.raised \/ exc # None THEN "raised" ELSE "returned"
        /\ exc' = IF r.raised THEN Str(SinkError) ELSE exc
        /\ ret' = IF r.raised \/ exc # None THEN None ELSE ret
    /\ UNCHANGED <<TOOL_LOGGER, handlerVars, caller, query, items, api_key, search_exc, searches,
                   toolCalls>>

----------------------------------------------------------------------------
\* Orchestration helpers (lines 389-410)

extract_text(result_obj) ==
    IF Truthy(result_obj.final_output) THEN result_obj.final_output
    ELSE IF Truthy(result_obj.text) THEN result_obj.text
    ELSE Str(result_obj.str)

\* The value run_planner returns when Runner.run hands back result
run_planner(result) == extract_text(result)

\* The value run_reviewer returns when Runner.run hands back result
run_reviewer(result) == extract_text(result)

----------------------------------------------------------------------------
\* Request handler of the Streamlit script (lines 423-538)

OkTrace == [trace |-> "Planner Agent -> Reviewer Agent"]
ErrTrace == [trace |-> "Runtime error."]
ErrText(e) == "(!) Error while processing your request:\n\n'''\n" \o e \o "\n'''"

UserMessage(text) == [role |-> "user", content |-> Str(text)]
AssistantMessage(content) == [role |-> "assistant", content |-> content]

\* Mutant: the raw plan is saved instead of the validated text
SavedAnswer_plan(plan, review) == AssistantMessage(plan)

\* lines 523-525: what the success path appends to the history
SavedAnswer(plan, review) == AssistantMessage(review)

\* Mutant: no finally block, the logger stays installed after a failure
HandleException_noFinally(e, how) ==
    /\ messages' = Append(messages, AssistantMessage(Str(ErrText(e))))
    /\ meta' = Append(meta, ErrTrace)
    /\ stage_exc' = Str(e)
    /\ TOOL_LOGGER' = TOOL_LOGGER
    /\ pc' = "idle"
    /\ last' = how

\* Mutant: the failure entry gets the trace of a normal answer
HandleException_okTrace(e, how) ==
    /\ messages' = Append(messages, AssistantMessage(Str(ErrText(e))))
    /\ meta' = Append(meta, OkTrace)
    /\ stage_exc' = Str(e)
    /\ TOOL_LOGGER' = set_tool_logger(TOOL_LOGGER, None)
    /\ pc' = "idle"
    /\ last' = how

\* Mutant: the failure entry replaces the user's message instead of following it
HandleException_overwrite(e, how) ==
    /\ messages' = Append(SubSeq(messages, 1, Len(messages) - 1),
                          AssistantMessage(Str(ErrText(e))))
    /\ meta' = Append(SubSeq(meta, 1, Len(meta) - 1), ErrTrace)
    /\ stage_exc' = Str(e)
    /\ TOOL_LOGGER' = set_tool_logger(TOOL_LOGGER, None)
    /\ pc' = "idle"
    /\ last' = how

\* lines 528-538: except Exception as e, then finally
HandleException(e, how) ==
    /\ messages' = Append(messages, AssistantMessage(Str(ErrText(e))))
    /\ meta' = Append(meta, ErrTrace)
    /\ stage_exc' = Str(e)
    /\ TOOL_LOGGER' = set_tool_logger(TOOL_LOGGER, None)
    /\ pc' = "idle"
    /\ last' = how

\* lines 459-493: the user message is appended, the per-request event list
\* and its logger are created, the logger is installed
Submit(text) ==
    /\ UNCHANGED pureVars
    /\ pc = "idle"
    /\ ToolIdle
    /\ req < MaxRequests
    /\ text # ""
    /\ req' = req + 1
    /\ user_input' = Str(text)
    /\ messages0' = messages
    /\ messages' = Append(messages, UserMessage(text))
    /\ meta' = Append(meta, None)
    /\ tool_events' = Append(tool_events, <<>>)
    /\ TOOL_LOGGER' = set_tool_logger(TOOL_LOGGER, Logger(req + 1))
    /\ pc' = "planner"
    /\ plan_text' = None
    /\ review_text' = None
    /\ plannerCalls' = <<>>
    /\ reviewerCalls' = <<>>
    /\ stage_exc' = None
    /\ last' = "none"
    /\ FrameDropped

\* Mutant: the reviewer is run on the user's text instead of the plan
PlannerReturns_userText(result) ==
    /\ UNCHANGED pureVars
    /\ pc = "planner"
    /\ plannerCalls' = Append(plannerCalls, user_input)
    /\ plan_text' = run_planner(result)
    /\ reviewerCalls' = Append(reviewerCalls, user_input)
    /\ pc' = "reviewer"
    /\ UNCHANGED <<TOOL_LOGGER, tool_events, messages, meta, req, user_input,
                   review_text, stage_exc, last, messages0, toolVars>>

\* lines 503-509: run_planner returns, run_reviewer is called with its text
PlannerReturns(result) ==
    /\ UNCHANGED pureVars
    /\ pc = "planner"
    /\ plannerCalls' = Append(plannerCalls, user_input)
    /\ plan_text' = run_planner(result)
    /\ reviewerCalls' = Append(reviewerCalls, run_planner(result))
    /\ pc' = "reviewer"
    /\ UNCHANGED <<TOOL_LOGGER, tool_events, messages, meta, req, user_input,
                   review_text, stage_exc, last, messages0, toolVars>>

\* line 503 raises: lines 528-538
PlannerRaises(e) ==
    /\ UNCHANGED pureVars
    /\ pc = "planner"
    /\ plannerCalls' = Append(plannerCalls, user_input)
    /\ HandleException(e, "planner_raised")
    /\ UNCHANGED <<tool_events, req, user_input, plan_text, review_text,
                   reviewerCalls, messages0, toolVars>>

\* lines 509-526 and 536-538: run_reviewer returns, the answer is saved
ReviewerReturns(result) ==
    /\ UNCHANGED pureVars
    /\ pc = "reviewer"
    /\ ToolIdle
    /\ review_text' = run_reviewer(result)
    /\ messages' = Append(messages, SavedAnswer(plan_text, run_reviewer(result)))
    /\ meta' = Append(meta, OkTrace)
    /\ TOOL_LOGGER' = set_tool_logger(TOOL_LOGGER, None)
    /\ pc' = "idle"
    /\ last' = "ok"
    /\ FrameDropped
    /\ UNCHANGED <<tool_events, req, user_input, plan_text, plannerCalls,
                   reviewerCalls, stage_exc, messages0>>

\* line 509 raises: lines 528-538
ReviewerRaises(e) ==
    /\ UNCHANGED pureVars
    /\ pc = "reviewer"
    /\ ToolIdle
    /\ HandleException(e, "reviewer_raised")
    /\ FrameDropped
    /\ UNCHANGED <<tool_events, req, user_input, plan_text, review_text,
                   plannerCalls, reviewerCalls, messages0>>

\* lines 425-427 and 442-445: the Reset button clears the session state and
\* the rerun initialises the two lists again
ResetConversation ==
    /\ UNCHANGED pureVars
    /\ pc = "idle"
    /\ ToolIdle
    /\ messages # <<>>
    /\ messages' = <<>>
    /\ meta' = <<>>
    /\ last' = "none"
    /\ messages0' = <<>>
    /\ FrameDropped
    /\ UNCHANGED <<TOOL_LOGGER, tool_events, pc, req, user_input, plan_text,
                   review_text, plannerCalls, reviewerCalls, stage_exc>>

----------------------------------------------------------------------------

InitProgram ==
    /\ TOOL_LOGGER = None
    /\ messages = <<>>
    /\ meta = <<>>
    /\ tool_events = <<>>
    /\ pc = "idle"
    /\ req = 0
    /\ user_input = None
    /\ plan_text = None
    /\ review_text = None
    /\ plannerCalls = <<>>
    /\ reviewerCalls = <<>>
    /\ stage_exc = None
    /\ last = "none"
    /\ messages0 = <<>>
    /\ tpc = "none"
    /\ caller = "direct"
    /\ query = ""
    /\ api_key = Unset
    /\ search_exc = None
    /\ items = Unset
    /\ exc = None
    /\ ret = None
    /\ emitted = <<>>
    /\ searches = 0
    /\ sinkRaises = 0
    /\ toolCalls = 0

Init ==
    /\ InitProgram
    /\ arg = None
    /\ out = Unset

Next ==
    \/ \E text \in UserInputs : Submit(text)
    \/ \E result \in PlannerResults : PlannerReturns(result)
    \/ \E e \in StageErrors : PlannerRaises(e)
    \/ \E result \in ReviewerResults : ReviewerReturns(result)
    \/ \E e \in StageErrors : ReviewerRaises(e)
    \/ ResetConversation
    \/ \E q \in Queries, fails \in BOOLEAN : InternetSearchStart(q, fails)
    \/ \E k \in ApiKeys, fails \in BOOLEAN : InternetSearchMissingKey(k, fails)
    \/ \E k \in ApiKeys, m \in SearchErrors : InternetSearchRaises(k, m)
    \/ \E k \in ApiKeys, results \in Responses, fails \in BOOLEAN :
           InternetSearchResult(k, results, fails)
    \/ \E fails \in BOOLEAN : InternetSearchExcept(fails)
    \/ \E fails \in BOOLEAN : InternetSearchFinally(fails)

Spec == Init /\ [][Next]_vars

----------------------------------------------------------------------------
\* redact_for_logs evaluated on its own, on nested values

MaxDepth == 2

RedactAtoms == {Str("hello"), Str("sk-123"), Num("7")}
MapKeys == {"API_KEY", "Token", "name", "items"}

\* values nested at most d deep: atoms, one-entry dicts, one-element lists
\* and two-entry dicts with a sensitive and a plain key
RECURSIVE Values(_)
Values(d) ==
    IF d = 0 THEN RedactAtoms
    ELSE LET prev == Values(d - 1) IN
         prev
         \cup {Dict([k \in {key} |-> v]) : key \in MapKeys, v \in prev}
         \cup {List(<<v>>) : v \in prev}
         \cup {Dict([k \in {"Password", "note"} |-> IF k = "note" THEN v ELSE a]) :
                 a \in RedactAtoms, v \in prev}

InitRedact ==
    /\ InitProgram
    /\ arg \in Values(MaxDepth)
    /\ out = Unset

ApplyRedact ==
    /\ out = Unset
    /\ out' = redact_for_logs(arg)
    /\ UNCHANGED <<TOOL_LOGGER, tool_events, handlerVars, toolVars, arg>>

SpecRedact == InitRedact /\ [][ApplyRedact]_vars

\* redact_for_logs evaluated on its own, on strings around the two lengths
\* of line 61

Slack == 2

Digit(i) == SubSeq("0123456789", (i % 10) + 1, (i % 10) + 1)

\* the string whose characters are the last digits of a, a + 1, ..., b
RECURSIVE DigitsFrom(_, _)
DigitsFrom(a, b) ==
    IF a > b THEN ""
    ELSE IF a = b THEN Digit(a)
    ELSE LET h == (a + b) \div 2
         IN DigitsFrom(a, h) \o DigitsFrom(h + 1, b)

\* the string of length n whose i-th character is the last digit of i
Digits(n) == DigitsFrom(1, n)

StrLengths ==
    {0, 1} \cup ((RedactKeep - 1)..(RedactKeep + 1))
           \cup ((RedactLimit - Slack)..(RedactLimit + Slack))
Words == {"api_key", "TOKEN", "Secret", "password", "x-key"}

StrInputs ==
    {Str(Digits(n)) : n \in StrLengths}
    \cup {Str(Digits(n - Len(w)) \o w) : n \in {m \in StrLengths : m >= 7}, w \in Words}
    \cup {Str(w \o Digits(n - Len(w))) : n \in {m \in StrLengths : m >= 7}, w \in Words}

InitRedactStr ==
    /\ InitProgram
    /\ arg \in StrInputs
    /\ out = Unset

SpecRedactStr == InitRedactStr /\ [][ApplyRedact]_vars

\* internet_search invoked on its own (no request running, the slot empty),
\* on responses whose formatted output is short, long, or holds a sensitive
\* word

SearchQueries == {"louvre hours", "my API_KEY is k1"}

SearchResponses ==
    { <<>>,
      <<[title |-> "Louvre", content |-> "Open 9-18"]>>,
      <<[title |-> "Louvre", content |-> "Open 9-18"],
        [title |-> "Orsay", content |-> "Closed on Mondays"]>>,
      <<[content |-> "a page without a title"]>>,
      <<[title |-> "Reset", content |-> "your password is hunter2"]>>,
      <<[title |-> "T", content |-> Digits(420) \o " token"]>> }
    \cup {<<[title |-> "T", content |-> Digits(n - 5)]>> :
             n \in ((RedactLimit - Slack)..(RedactLimit + Slack))
                   \cup ((PreviewCap - Slack)..(PreviewCap + Slack))}

NextSearch ==
    \/ \E q \in SearchQueries, fails \in BOOLEAN : InternetSearchStart(q, fails)
    \/ \E k \in ApiKeys, fails \in BOOLEAN : InternetSearchMissingKey(k, fails)
    \/ \E k \in ApiKeys, m \in SearchErrors : InternetSearchRaises(k, m)
    \/ \E k \in ApiKeys, results \in SearchResponses, fails \in BOOLEAN :
           InternetSearchResult(k, results, fails)
    \/ \E fails \in BOOLEAN : InternetSearchExcept(fails)
    \/ \E fails \in BOOLEAN : InternetSearchFinally(fails)

SpecSearch == Init /\ [][NextSearch]_vars

\* extract_text evaluated on its own: the result object's shape is whatever
\* the Runner of the agent framework hands back

AttrValues == {None, Str(""), Str("answer"), Str("draft"), Num("0"), Num("42")}

ResultObjects ==
    [final_output : AttrValues, text : AttrValues, str : {"RunResult(a)", "<object>"}]

InitExtract ==
    /\ InitProgram
    /\ arg \in ResultObjects
    /\ out = Unset

ApplyExtract ==
    /\ out = Unset
    /\ out' = extract_text(arg)
    /\ UNCHANGED <<TOOL_LOGGER, tool_events, handlerVars, toolVars, arg>>

SpecExtract == InitExtract /\ [][ApplyExtract]_vars

----------------------------------------------------------------------------
\* Properties

Count(t) == Cardinality({i \in 1..Len(emitted) : emitted[i].type = t})
Finished == tpc \in {"returned", "raised"}
RequestDone == pc = "idle" /\ last # "none"
Added == SubSeq(messages, Len(messages0) + 1, Len(messages))

\* C1: the events one invocation of internet_search hands to log_tool_event
\* begin with exactly one 'call' event and, once the invocation has finished,
\* end with exactly one 'end' event; an 'end' event is never followed by
\* another event of the invocation.
C1_CallFirstEndLast ==
    /\ tpc # "none" =>
          /\ Len(emitted) >= 1
          /\ emitted[1].type = "call"
          /\ Count("call") = 1
    /\ \A i \in 1..Len(emitted) : emitted[i].type = "end" => i = Len(emitted)
    /\ Finished => emitted[Len(emitted)].type = "end" /\ Count("end") = 1
    /\ tpc \in {"try", "except", "finally"} => Count("end") = 0

C1_Witness ==
    /\ tpc = "returned"
    /\ ret = Str(NoResults)
    /\ emitted[Len(emitted)].type = "end"

\* C2: while the planner is about to run the slot holds the logger of this
\* request and that logger's event list is empty; the slot still holds it
\* while the reviewer runs; the slot is empty whenever no request is being
\* handled, however the last request ended.
C2_LoggerInstalledThenRemoved ==
    /\ pc = "planner" =>
          /\ TOOL_LOGGER = Logger(req)
          /\ tool_events[req] = <<>>
          /\ plannerCalls = <<>>
    /\ pc = "reviewer" => TOOL_LOGGER = Logger(req)
    /\ pc = "idle" => TOOL_LOGGER = None

C2_Witness ==
    /\ RequestDone
    /\ last = "reviewer_raised"
    /\ tool_events[req] # <<>>
    /\ TOOL_LOGGER = None

\* C3: after a request in which both stages succeeded, the history is the
\* history before the request, the user's message and one assistant entry
\* whose content is the reviewer's extracted text; when the planner's text
\* differs from it, no assistant entry added by the request holds the
\* planner's text.
C3_FinalTextIsReviewers ==
    (RequestDone /\ last = "ok") =>
        /\ messages = messages0 \o <<UserMessage(user_input.v), AssistantMessage(review_text)>>
        /\ plan_text # review_text =>
              \A i \in 1..Len(Added) :
                  Added[i].role = "assistant" => Added[i].content # plan_text

C3_Witness ==
    /\ RequestDone
    /\ last = "ok"
    /\ plan_text = Str("plan A")
    /\ messages[Len(messages)] = AssistantMessage(Str("review A"))

\* C4: in a request the planner is invoked at most once and with the user's
\* text, the reviewer at most once, only when the planner has returned, and
\* with the planner's extracted text; a finished request has invoked the
\* planner exactly once.
C4_StagesInSequence ==
    /\ Len(plannerCalls) <= 1
    /\ Len(reviewerCalls) <= 1
    /\ plannerCalls # <<>> => plannerCalls = <<user_input>>
    /\ reviewerCalls # <<>> =>
          /\ plannerCalls # <<>>
          /\ plan_text # None
          /\ reviewerCalls = <<plan_text>>
    /\ pc = "reviewer" => Len(reviewerCalls) = 1
    /\ RequestDone => Len(plannerCalls) = 1
    /\ (RequestDone /\ last \in {"ok", "reviewer_raised"}) => Len(reviewerCalls) = 1

C4_Witness ==
    /\ RequestDone
    /\ last = "ok"
    /\ plannerCalls = <<Str("3-day Paris trip")>>
    /\ reviewerCalls = <<Str("same")>>

\* C5: after a request whose planner stage raised, the reviewer has not been
\* invoked, the handler has caught that exception (the failure entry of the
\* history carries its message) and the slot is empty.
C5_PlannerFailure ==
    (RequestDone /\ last = "planner_raised") =>
        /\ reviewerCalls = <<>>
        /\ review_text = None
        /\ stage_exc # None
        /\ messages[Len(messages)] = AssistantMessage(Str(ErrText(stage_exc.v)))
        /\ TOOL_LOGGER = None

C5_Witness ==
    /\ RequestDone
    /\ last = "planner_raised"
    /\ stage_exc = Str("rate limit")
    /\ TOOL_LOGGER = None

\* C6: whatever the sink does (it may raise on any or on every event), no
\* exception of the sink leaves log_tool_event: internet_search never ends
\* by raising, no exception of the sink is in flight or reported as a search
\* error, every event handed to log_tool_event has reached the installed
\* sink in order, and a finished invocation has emitted 'call', one of
\* 'error' / 'result', 'end' and returns the string that the credential and
\* the search outcome alone determine.
C6_SinkFailureSwallowed ==
    /\ tpc # "raised"
    /\ exc \in {None, search_exc}
    /\ \A i \in 1..Len(emitted) :
          emitted[i].type = "error" => emitted[i].error # SinkError
    /\ (TOOL_LOGGER # None /\ tpc # "none") =>
          LET list == tool_events[TOOL_LOGGER.n] IN
          /\ Len(list) >= Len(emitted)
          /\ SubSeq(list, Len(list) - Len(emitted) + 1, Len(list)) = emitted
    /\ tpc = "returned" =>
          /\ Len(emitted) = 3
          /\ emitted[1].type = "call"
          /\ emitted[3].type = "end"
          /\ IF ~Truthy(api_key)
             THEN /\ emitted[2].type = "error"
                  /\ ret = Str("Search error: " \o MissingKeyMsg)
             ELSE IF search_exc # None
             THEN /\ emitted[2].type = "error"
                  /\ ret = Str("Search error: " \o search_exc.v)
             ELSE /\ emitted[2].type = "result"
                  /\ \E results \in Responses : ret = Str(FormatOutput(results))

C6_Witness ==
    /\ tpc = "returned"
    /\ sinkRaises = 3
    /\ emitted[2].type = "result"
    /\ ret = Str("- Louvre: Open 9-18")
    /\ pc = "reviewer"

\* C7: a step in which log_tool_event is called while the slot is empty
\* changes neither the slot nor any request's event list, and the call does
\* not raise.
C7_NoLoggerNoEffect ==
    [][(TOOL_LOGGER = None /\ emitted' # emitted /\ emitted' # <<>>) =>
          /\ TOOL_LOGGER' = None
          /\ tool_events' = tool_events
          /\ tpc' # "raised"
          /\ exc' \in {None, search_exc'}]_vars

C7_Witness ==
    /\ TOOL_LOGGER = None
    /\ caller = "direct"
    /\ tpc = "returned"
    /\ Len(emitted) = 3
    /\ Len(tool_events) = 1
    /\ Len(tool_events[1]) = 3

\* C8: an invocation that finds no credential (None or the empty string)
\* makes no search call, does not raise, and when it has returned its value
\* is the search-error string naming TAVILY_API_KEY and it has emitted one
\* 'call', one 'error', one 'end' and no 'result' event.
C8_MissingCredential ==
    (api_key # Unset /\ ~Truthy(api_key)) =>
        /\ searches = 0
        /\ tpc # "raised"
        /\ tpc = "returned" =>
              /\ ret = Str("Search error: missing TAVILY_API_KEY in environment.")
              /\ Contains(ret.v, "missing TAVILY_API_KEY")
              /\ Count("call") = 1
              /\ Count("error") = 1
              /\ Count("end") = 1
              /\ Count("result") = 0

C8_Witness ==
    /\ tpc = "returned"
    /\ api_key = Str("")
    /\ searches = 0
    /\ Count("error") = 1

\* C9: an invocation whose search call raised with message m does not raise;
\* from the finally block on it has emitted an 'error' event carrying m and
\* no 'end' event before it, and when it has returned its value is a string
\* that contains m and the 'end' event comes after that 'error' event.
C9_SearchFailure ==
    search_exc # None =>
        /\ tpc # "raised"
        /\ tpc \in {"finally", "returned"} =>
              \E i \in 1..Len(emitted) :
                  /\ emitted[i] = [type |-> "error", tool |-> "internet_search",
                                   error |-> search_exc.v]
                  /\ \A j \in 1..i : emitted[j].type # "end"
        /\ tpc = "returned" =>
              /\ ret.t = "str"
              /\ Contains(ret.v, search_exc.v)
              /\ ret.v = "Search error: " \o search_exc.v
              /\ \E i, j \in 1..Len(emitted) :
                    /\ i < j
                    /\ emitted[i].type = "error"
                    /\ emitted[i].error = search_exc.v
                    /\ emitted[j].type = "end"

C9_Witness ==
    /\ tpc = "returned"
    /\ search_exc = Str("timeout")
    /\ searches = 1
    /\ Contains(ret.v, "timeout")

\* C10: after a request in which a stage raised, the history is the history
\* before the request, the user's message and one assistant entry holding
\* the error text of the exception; the entry's trace is 'Runtime error.',
\* not the trace of a normal answer; no entry added by the request holds the
\* planner's or the reviewer's text.
C10_FailureEntry ==
    (RequestDone /\ last \in {"planner_raised", "reviewer_raised"}) =>
        /\ stage_exc # None
        /\ messages = messages0 \o <<UserMessage(user_input.v),
                                      AssistantMessage(Str(ErrText(stage_exc.v)))>>
        /\ Len(meta) = Len(messages)
        /\ meta[Len(meta) - 1] = None
        /\ meta[Len(meta)] = [trace |-> "Runtime error."]
        /\ meta[Len(meta)] # [trace |-> "Planner Agent -> Reviewer Agent"]
        /\ review_text = None
        /\ \A i \in 1..Len(Added) :
              plan_text # None => Added[i].content # plan_text

C10_Witness ==
    /\ RequestDone
    /\ last = "reviewer_raised"
    /\ plan_text = Str("plan A")
    /\ Len(messages0) = 2
    /\ Len(messages) = 4
    /\ meta[4] = ErrTrace

IsPrefix(a, b) == Len(a) <= Len(b) /\ SubSeq(b, 1, Len(a)) = a

\* C11 as claimed: in every step of the user interface (requests and sidebar
\* controls) every entry of the history stays at its position and the
\* history does not get shorter.
C11_AppendOnlyAlways == [][IsPrefix(messages, messages')]_vars

\* C11 as amended: every step keeps every entry of the history at its
\* position, except the Reset conversation button, which (between requests)
\* empties the history and its meta list.
C11_AppendOnlyButReset ==
    [][\/ IsPrefix(messages, messages') /\ IsPrefix(meta, meta')
       \/ /\ pc = "idle"
          /\ pc' = "idle"
          /\ messages' = <<>>
          /\ meta' = <<>>]_vars

C11_Witness ==
    /\ RequestDone
    /\ last = "ok"
    /\ Len(messages) = 4
    /\ messages[2].role = "assistant"
    /\ SubSeq(messages, 1, 2) = messages0

\* out is in redacted in the way C12 says: same shape, the value of every
\* sensitive key is the marker, everything else is treated the same way
RECURSIVE MapRedacted(_, _)
MapRedacted(in, o) ==
    CASE in.t = "dict" ->
           /\ o.t = "dict"
           /\ DOMAIN o.v = DOMAIN in.v
           /\ \A k \in DOMAIN in.v :
                 IF \E w \in {"key", "token", "secret", "password"} :
                        Contains(Lower(k), w)
                 THEN o.v[k] = Str("[redacted]")
                 ELSE MapRedacted(in.v[k], o.v[k])
      [] in.t = "list" ->
           /\ o.t = "list"
           /\ Len(o.v) = Len(in.v)
           /\ \A i \in 1..Len(in.v) : MapRedacted(in.v[i], o.v[i])
      [] OTHER -> o.t = in.t

\* C12: in the result of redact_for_logs, at every nesting depth inside
\* dicts and lists, the value of each entry whose lowercased key contains
\* 'key', 'token', 'secret' or 'password' is the redaction marker instead of
\* the original value, whatever that value was; the other entries keep their
\* keys and their values are treated the same way.
C12_SensitiveKeysRedacted ==
    out # Unset => MapRedacted(arg, out)

C12_Witness ==
    /\ out # Unset
    /\ arg = Dict([k \in {"Password", "note"} |->
                     IF k = "note" THEN Dict([j \in {"API_KEY"} |-> Num("7")])
                     ELSE Str("sk-123")])
    /\ out.v["Password"] = Str("[redacted]")
    /\ out.v["note"].v["API_KEY"] = Str("[redacted]")

\* C13: for a string argument, redact_for_logs returns the marker when the
\* lowercased string contains 'api_key', 'token', 'secret' or 'password';
\* otherwise the string itself when it has at most 300 characters, and its
\* first 120 characters followed by the truncation marker when it is longer.
C13_StringRedaction ==
    (out # Unset /\ arg.t = "str") =>
        LET s == arg.v
            sensitive == \E w \in {"api_key", "token", "secret", "password"} :
                            Contains(Lower(s), w)
        IN  /\ out.t = "str"
            /\ sensitive => out.v = "[redacted]"
            /\ (~sensitive /\ Len(s) <= 300) => out.v = s
            /\ (~sensitive /\ Len(s) > 300) =>
                  /\ out.v = SubSeq(s, 1, 120) \o "~ [truncated]"
                  /\ Len(out.v) = 120 + Len("~ [truncated]")

C13_Witness ==
    /\ out # Unset
    /\ arg.t = "str"
    /\ Len(arg.v) = 301
    /\ SubSeq(arg.v, 297, 301) = "x-key"
    /\ out.v = SubSeq(arg.v, 1, 120) \o "~ [truncated]"

\* C14: extract_text returns the final_output attribute when it is present
\* and non-empty, else the text attribute when it is present and non-empty,
\* else the str() rendering of the object; what it returns is always a
\* string.
C14_ExtractTextIsString ==
    out # Unset =>
        /\ out = IF Truthy(arg.final_output) THEN arg.final_output
                 ELSE IF Truthy(arg.text) THEN arg.text
                 ELSE Str(arg.str)
        /\ out.t = "str"

\* the preview C15 describes for the formatted output o
PreviewOf(o) ==
    LET cut == IF Len(o) > 400 THEN SubSeq(o, 1, 400) \o "~" ELSE o
        sensitive == \E w \in {"api_key", "token", "secret", "password"} :
                        Contains(Lower(cut), w)
    IN  IF sensitive THEN "[redacted]"
        ELSE IF Len(cut) <= 300 THEN cut
        ELSE SubSeq(cut, 1, 120) \o "~ [truncated]"

\* C15: once the search call of an invocation has returned, the invocation
\* has emitted one 'result' event (and no 'error' event) whose preview is the
\* redaction of the formatted output cut to 400 characters, with the
\* ellipsis when the output is longer; the preview holds at most 400
\* characters of the output; the value returned is the whole formatted
\* output, or 'No results found.' when the response has no results.
C15_PreviewAndReturn ==
    (items # Unset /\ tpc \in {"finally", "returned"}) =>
        LET o == IF Len(items.v) = 0 THEN "No results found."
                 ELSE FormatOutput(items.v)
        IN  /\ Count("result") = 1
            /\ Count("error") = 0
            /\ emitted[2].type = "result"
            /\ emitted[2].preview = PreviewOf(o)
            /\ Len(emitted[2].preview) <= 400 + Len("~")
            /\ ret = Str(o)

C15_Witness ==
    /\ tpc = "returned"
    /\ items # Unset
    /\ Len(ret.v) = 401
    /\ emitted[2].type = "result"
    /\ emitted[2].preview = SubSeq(ret.v, 1, 120) \o "~ [truncated]"

\* C16: with one request handled at a time, an event list changes only while
\* its own request is in the reviewer stage with its own logger in the slot,
\* and only by the event just emitted being appended; the lists of earlier
\* requests stay as they are and no list of a later request exists yet; every
\* event emitted by a tool during a request is appended to the list of that
\* request; a list is created empty, for the request that starts.
C16_EventsStayInRequest ==
    [][ /\ Len(tool_events') >= Len(tool_events)
        /\ \A n \in 1..Len(tool_events) :
              tool_events'[n] # tool_events[n] =>
                  /\ n = req
                  /\ pc = "reviewer"
                  /\ TOOL_LOGGER = Logger(n)
                  /\ emitted' # <<>>
                  /\ tool_events'[n] = Append(tool_events[n], emitted'[Len(emitted')])
        /\ Len(tool_events') # Len(tool_events) =>
              /\ Len(tool_events') = Len(tool_events) + 1
              /\ req' = Len(tool_events')
              /\ tool_events'[req'] = <<>>
        /\ (pc = "reviewer" /\ pc' = "reviewer" /\ emitted' # emitted) =>
              /\ Len(tool_events') = req
              /\ tool_events'[req] = Append(tool_events[req], emitted'[Len(emitted')])
      ]_vars

C16_Witness ==
    /\ req = 2
    /\ Len(tool_events) = 2
    /\ Len(tool_events[1]) = 3
    /\ Len(tool_events[2]) = 3
    /\ tool_events[1][2].type = "error"
    /\ tool_events[2][2].type = "result"

StartsWith(s, p) == Len(s) >= Len(p) /\ SubSeq(s, 1, Len(p)) = p

\* C17: an invocation never ends by an exception; once it has returned it has
\* emitted exactly three events, 'call', then 'result' or 'error', then
\* 'end', and the string it returned starts with 'Search error:' exactly when
\* the second event is 'error'; at no point has an invocation emitted more
\* than one 'result' or 'error' event in all, nor made the external search
\* more than once.
C17_ThreeEventsOneOutcome ==
    /\ tpc # "raised"
    /\ Count("result") + Count("error") <= 1
    /\ searches <= 1
    /\ tpc = "returned" =>
          /\ Len(emitted) = 3
          /\ emitted[1].type = "call"
          /\ emitted[2].type \in {"result", "error"}
          /\ emitted[3].type = "end"
          /\ ret.t = "str"
          /\ StartsWith(ret.v, "Search error:") <=> emitted[2].type = "error"

C17_Witness ==
    /\ tpc = "returned"
    /\ caller = "reviewer"
    /\ searches = 1
    /\ search_exc # None
    /\ Len(emitted) = 3
    /\ emitted[2].type = "error"
    /\ StartsWith(ret.v, "Search error:")

====
